---- MODULE Spec2Model ----
(***************************************************************************)
(* The mdui dialog component (Dialog.onOpenChange, connectedCallback,      *)
(* disconnectedCallback) as a state machine: every invocation of the       *)
(* asynchronous open-change handler is a coroutine ("run") whose           *)
(* suspension points are the awaits of the source, and the host event loop *)
(* interleaves the runs of all dialogs with the user's events.  The        *)
(* declarative dialog triggers, the plugin registry ($.fn.extend) and the  *)
(* chip element are modelled beside it, each with its own specification.   *)
(***************************************************************************)
EXTENDS Integers, Sequences, FiniteSets

\* The two dialog elements of the page.
Dialogs == {1, 2}

\* How many times the open property of one dialog may change in a behaviour.
MaxRequests == 3

\* How many times one dialog may be connected to the document.
MaxConnects == 2

\* How many times the open property of one dialog may change when two
\* dialogs are stacked.
MaxStackRequests == 2

\* How many clicks on the overlay of a dialog a behaviour may hold.
MaxOverlayClicks == 2

\* How many click and keydown events on a chip a behaviour may hold.
MaxChipEvents == 3

\* How many clicks on declarative dialog triggers a behaviour may hold.
MaxClicks == 3

\* How many calls of $.fn.extend a behaviour may hold.
MaxExtends == 2

VARIABLES
    nested,          \* TRUE: dialog 2 is a DOM descendant of dialog 1
    open,            \* open[d]: the `open` property
    closeOnEsc,      \* closeOnEsc[d]: the `closeOnEsc` property
    connected,       \* connected[d]: the element is in the document
    hasUpdated,      \* hasUpdated[d]: LitElement.hasUpdated
    listeners,       \* listeners[d]: keydown handlers registered on the element
    display,         \* display[d]: this.style.display
    originalTrigger, \* originalTrigger[d]: element focused before the dialog opened
    activeModals,    \* the stack of activated modal helpers (dialog ids)
    lockOwners,      \* the dialogs that hold a scroll-lock unit
    lockCount,       \* the scroll-lock counter
    runs,            \* runs[d]: the invocations of onOpenChange still in flight
    nextId,          \* nextId[d]: number of invocations of onOpenChange so far
    anims,           \* anims[d]: the animations running on the elements of d
    raf,             \* queue of requestAnimationFrame callbacks (dialog ids)
    timers,          \* queue of setTimeout callbacks (elements to focus)
    activeElement,   \* document.activeElement
    lastEvent,       \* lastEvent[d]: the event emitted last on d
    cancelled,       \* cancelled[d]: the invocations whose event was default-prevented
    closeOnOverlayClick, \* closeOnOverlayClick[d]: the `closeOnOverlayClick` property
    overlayClicks,   \* overlayClicks[d]: number of 'overlay-click' events emitted on d
    ready,           \* the $.ready callback has registered the click handler
    triggers,        \* triggers[t]: whether and when trigger t entered the document
    clicks,          \* number of clicks on trigger elements so far
    data,            \* data[n]: the 'mdui.dialog' entry of node n in the data store
    insts,           \* the dialog controllers constructed so far
    lastThis,        \* `this` of the last invocation of the click handler
    fn,              \* $.fn: the methods of the collection prototype, by name
    calls,           \* the calls of $.fn.extend so far
    returned,        \* what the last call of $.fn.extend returned
    chip,            \* the properties of the chip element
    deletes,         \* number of 'delete' events emitted on the chip
    chipEvents       \* number of click and keydown events on the chip so far

vars == <<nested, open, closeOnEsc, connected, hasUpdated, listeners, display,
          originalTrigger, activeModals, lockOwners, lockCount,
          runs, nextId, anims, raf, timers, activeElement, lastEvent,
          cancelled, closeOnOverlayClick, overlayClicks,
          ready, triggers, clicks, data, insts, lastThis,
          fn, calls, returned, chip, deletes, chipEvents>>

\* The chip element.
chipVars == <<chip, deletes, chipEvents>>

\* The declarative triggers and the plugin registry.
triggerVars == <<ready, triggers, clicks, data, insts, lastThis>>
pluginVars == <<fn, calls, returned>>

\* The state of the dialog elements.
dialogVars == <<nested, open, closeOnEsc, connected, hasUpdated, listeners,
                display, originalTrigger, activeModals, lockOwners, lockCount,
                runs, nextId, anims, raf, timers, activeElement, lastEvent,
                cancelled, closeOnOverlayClick, overlayClicks>>

\* The overlay of the dialogs.
overlayVars == <<closeOnOverlayClick, overlayClicks>>

\* What the transitions of a dialog and its life cycle leave alone.
configVars == <<nested, closeOnEsc, overlayVars, triggerVars, pluginVars,
                chipVars>>
lifeVars == <<connected, hasUpdated, listeners>>
lockVars == <<lockOwners, lockCount>>
focusVars == <<raf, timers, activeElement>>
eventVars == <<lastEvent, cancelled>>

----------------------------------------------------------------------------
\* Elements that can hold the focus.

Body == <<"body", 0>>
Btn == <<"btn", 0>>
NoTrigger == <<"none", 0>>
Panel(d) == <<"panel", d>>
AutoTarget(d) == <<"auto", d>>

\* Dialog 2 holds an element with the autofocus attribute, dialog 1 does not.
HasAutofocus(d) == d = 2

Elems == {Body, Btn} \cup {Panel(d) : d \in Dialogs}
              \cup {AutoTarget(d) : d \in {x \in Dialogs : HasAutofocus(x)}}

Owner(e) == e[2]

\* The dialogs on the propagation path of an event whose target is e,
\* the target's own dialog first.
PathDialogs(e) ==
    IF Owner(e) = 0 THEN <<>>
    ELSE IF Owner(e) = 2 /\ nested THEN <<2, 1>>
    ELSE <<Owner(e)>>

InDialog(e, d) == \E i \in 1..Len(PathDialogs(e)) : PathDialogs(e)[i] = d

Rendered(d) == connected[d] /\ display[d] = "flex"

Visible(e) ==
    \A i \in 1..Len(PathDialogs(e)) : Rendered(PathDialogs(e)[i])

Top == IF activeModals = <<>> THEN 0 ELSE activeModals[Len(activeModals)]

\* Content outside the topmost overlay context is inert.
Focusable(e) ==
    /\ e \in Elems
    /\ Visible(e)
    /\ Top # 0 => InDialog(e, Top)

----------------------------------------------------------------------------
\* Helpers the dialog calls: scroll lock, modal stack, animations, events.

\* lockScreen(source): the source takes a lock unit unless it holds one.
lockScreen(d) ==
    /\ lockOwners' = lockOwners \cup {d}
    /\ lockCount' = IF d \in lockOwners THEN lockCount ELSE lockCount + 1

\* Mutant of unlockScreen: the counter is decremented whoever calls.
unlockScreenUnguarded(d) ==
    /\ lockOwners' = lockOwners \ {d}
    /\ lockCount' = lockCount - 1

\* unlockScreen(source): the source gives its lock unit back if it holds one.
unlockScreen(d) ==
    /\ lockOwners' = lockOwners \ {d}
    /\ lockCount' = IF d \in lockOwners THEN lockCount - 1 ELSE lockCount

Without(s, d) == SelectSeq(s, LAMBDA x : x # d)

\* Modal.activate(): a new overlay context is pushed onto the stack.
activate(d) == activeModals' = Append(activeModals, d)

\* Modal.deactivate(): the overlay context of the dialog is popped.
deactivate(d) == activeModals' = Without(activeModals, d)

\* stopAnimations on the overlay, the panel and the children of d: every
\* animation running on them is cancelled.
stopAnimations(d) == anims' = [anims EXCEPT ![d] = {}]

\* animateTo on the overlay, the panel and the children of d, started by run id.
animateTo(d, id, kind) ==
    anims' = [anims EXCEPT ![d] = @ \cup {[id |-> id, kind |-> kind]}]

\* emit(this, ev): the event is dispatched; prevented tells whether a listener
\* called preventDefault on it.
Event(ev, id, prevented) == [ev |-> ev, id |-> id, prevented |-> prevented]
NoEvent == Event("none", 0, FALSE)

emit(d, ev, id, prevented) ==
    /\ lastEvent' = [lastEvent EXCEPT ![d] = Event(ev, id, prevented)]
    /\ cancelled' = [cancelled EXCEPT
                        ![d] = IF prevented THEN @ \cup {id} ELSE @]

\* element.focus(): inert or hidden elements do not take the focus.
Focus(e) == activeElement' = IF Focusable(e) THEN e ELSE activeElement

Run(id, kind, pc) == [id |-> id, kind |-> kind, pc |-> pc]

----------------------------------------------------------------------------
\* Dialog.onOpenChange: the synchronous prefix of run(), up to its first await.

\* Open branch, after the 'open' event was not prevented: show, remember the
\* focused element, activate the modal helper, lock the screen, stop animations.
OpenSteps(d) ==
    /\ display' = [display EXCEPT ![d] = "flex"]
    /\ originalTrigger' = [originalTrigger EXCEPT ![d] = activeElement]
    /\ activate(d)
    /\ lockScreen(d)
    /\ stopAnimations(d)

\* Mutant of OpenBegin: defaultPrevented is not looked at.
OpenBeginIgnoresPrevent(d, id, prevented, rest) ==
    /\ emit(d, "open", id, prevented)
    /\ runs' = [runs EXCEPT ![d] = rest \cup {Run(id, "open", "stop")}]
    /\ OpenSteps(d)

\* The open branch of run(): emit 'open', return if it was prevented.
OpenBegin(d, id, prevented, rest) ==
    /\ emit(d, "open", id, prevented)
    /\ IF prevented
       THEN /\ runs' = [runs EXCEPT ![d] = rest]
            /\ UNCHANGED <<display, originalTrigger, activeModals, lockVars, anims>>
       ELSE /\ runs' = [runs EXCEPT ![d] = rest \cup {Run(id, "open", "stop")}]
            /\ OpenSteps(d)

\* Mutant of CloseSteps: the modal helper is not deactivated.
CloseStepsNoDeactivate(d) ==
    /\ UNCHANGED activeModals
    /\ stopAnimations(d)

\* Close branch, after the 'close' event was not prevented.
CloseSteps(d) ==
    /\ deactivate(d)
    /\ stopAnimations(d)

\* The close branch of run(): emit 'close', return if it was prevented.
CloseBegin(d, id, prevented, rest) ==
    /\ emit(d, "close", id, prevented)
    /\ UNCHANGED <<display, originalTrigger, lockVars>>
    /\ IF prevented
       THEN /\ runs' = [runs EXCEPT ![d] = rest]
            /\ UNCHANGED <<activeModals, anims>>
       ELSE /\ runs' = [runs EXCEPT ![d] = rest \cup {Run(id, "close", "stop")}]
            /\ CloseSteps(d)

\* run(): `if (this.open) ... else if (this.hasUpdated) ...`, with the value
\* v of this.open at the time run() is entered.
RunBegin(d, v, id, prevented, rest) ==
    IF v THEN OpenBegin(d, id, prevented, rest)
    ELSE IF hasUpdated[d] THEN CloseBegin(d, id, prevented, rest)
    ELSE /\ runs' = [runs EXCEPT ![d] = rest]
         /\ UNCHANGED <<display, originalTrigger, activeModals, lockVars,
                        anims, eventVars>>

\* @watch('open'): the open property of d changes to v and onOpenChange is
\* invoked; before the first update the invocation waits for updateComplete.
OpenChanged(d, v, prevented) ==
    /\ open[d] # v
    /\ open' = [open EXCEPT ![d] = v]
    /\ nextId' = [nextId EXCEPT ![d] = @ + 1]
    /\ IF hasUpdated[d]
       THEN RunBegin(d, v, nextId[d] + 1, prevented, runs[d])
       ELSE /\ runs' = [runs EXCEPT ![d] = @ \cup {Run(nextId[d] + 1, "none", "wait")}]
            /\ UNCHANGED <<display, originalTrigger, activeModals, lockVars,
                           anims, eventVars>>

----------------------------------------------------------------------------
\* The operations of a dialog and of its environment.

\* The page (or the user's code) assigns the open property.
SetOpen(d, v, prevented) ==
    /\ nextId[d] < MaxRequests
    /\ OpenChanged(d, v, prevented)
    /\ UNCHANGED <<configVars, lifeVars, focusVars>>

\* The oldest invocation of onOpenChange that waits for updateComplete.
Waiting(d) == {r \in runs[d] : r.pc = "wait"}
FirstWaiting(d) == CHOOSE r \in Waiting(d) : \A q \in Waiting(d) : r.id <= q.id

\* `await this.updateComplete; await run()`: an invocation made before the
\* first update enters run() once the first update is complete.
RunStart(d, prevented) ==
    /\ hasUpdated[d]
    /\ Waiting(d) # {}
    /\ RunBegin(d, open[d], FirstWaiting(d).id, prevented,
                runs[d] \ {FirstWaiting(d)})
    /\ UNCHANGED <<configVars, lifeVars, focusVars, open, nextId>>

Advance(d, r, pc) == runs' = [runs EXCEPT ![d] = (@ \ {r}) \cup {Run(r.id, r.kind, pc)}]
Finish(d, r) == runs' = [runs EXCEPT ![d] = @ \ {r}]

\* Mutant of animationsSettle: the promise of a cancelled animation is never
\* resolved.
animationsSettleUnlessCancelled(d, r) ==
    /\ \E a \in anims[d] : a.id = r.id
    /\ anims' = [anims EXCEPT ![d] = {a \in @ : a.id # r.id}]

\* `await Promise.all(animateTo ...)` returns: the animations of run r have
\* run to their end, unless they were cancelled before.
animationsSettle(d, r) ==
    anims' = [anims EXCEPT ![d] = {a \in @ : a.id # r.id}]

\* Open branch after `await Promise.all(stopAnimations ...)`: request the
\* focus callback and start the open animations.
OpenAfterStop(d, r) ==
    /\ r \in runs[d] /\ r.kind = "open" /\ r.pc = "stop"
    /\ raf' = Append(raf, d)
    /\ animateTo(d, r.id, "open")
    /\ Advance(d, r, "anim")
    /\ UNCHANGED <<configVars, lifeVars, lockVars, open, nextId, display,
                   originalTrigger, activeModals, timers, activeElement, eventVars>>

\* Open branch after `await Promise.all(animateTo ...)`: emit 'opened'.
OpenAfterAnim(d, r) ==
    /\ r \in runs[d] /\ r.kind = "open" /\ r.pc = "anim"
    /\ animationsSettle(d, r)
    /\ emit(d, "opened", r.id, FALSE)
    /\ Finish(d, r)
    /\ UNCHANGED <<configVars, lifeVars, lockVars, focusVars, open, nextId,
                   display, originalTrigger, activeModals>>

\* Close branch after `await Promise.all(stopAnimations ...)`: start the
\* close animations.
CloseAfterStop(d, r) ==
    /\ r \in runs[d] /\ r.kind = "close" /\ r.pc = "stop"
    /\ animateTo(d, r.id, "close")
    /\ Advance(d, r, "anim")
    /\ UNCHANGED <<configVars, lifeVars, lockVars, focusVars, open, nextId,
                   display, originalTrigger, activeModals, eventVars>>

\* this.style.display = 'none': the dialog is hidden, and a focused element
\* inside it loses the focus to the body.
Hide(d) ==
    /\ display' = [display EXCEPT ![d] = "none"]
    /\ activeElement' = IF InDialog(activeElement, d) THEN Body ELSE activeElement

\* `setTimeout(() => trigger.focus())` when the trigger has a focus method.
RestoreFocus(d) ==
    timers' = IF originalTrigger[d] # NoTrigger
              THEN Append(timers, originalTrigger[d])
              ELSE timers

\* Mutant of CloseFinish: the screen is not unlocked.
CloseFinishNoUnlock(d) ==
    /\ Hide(d)
    /\ UNCHANGED lockVars
    /\ RestoreFocus(d)

\* The end of the close branch: hide, unlock the screen, restore the focus.
CloseFinish(d) ==
    /\ Hide(d)
    /\ unlockScreen(d)
    /\ RestoreFocus(d)

\* Close branch after `await Promise.all(animateTo ...)`: the end of the
\* close branch, then emit 'closed'.
CloseAfterAnim(d, r) ==
    /\ r \in runs[d] /\ r.kind = "close" /\ r.pc = "anim"
    /\ animationsSettle(d, r)
    /\ CloseFinish(d)
    /\ emit(d, "closed", r.id, FALSE)
    /\ Finish(d, r)
    /\ UNCHANGED <<configVars, lifeVars, open, nextId, originalTrigger,
                   activeModals, raf>>

\* The element the open branch moves the focus to.
FocusTarget(d) == IF HasAutofocus(d) THEN AutoTarget(d) ELSE Panel(d)

\* The requestAnimationFrame callback of the open branch.
RafFocus ==
    /\ raf # <<>>
    /\ Focus(FocusTarget(Head(raf)))
    /\ raf' = Tail(raf)
    /\ UNCHANGED <<configVars, lifeVars, lockVars, open, nextId, display,
                   originalTrigger, activeModals, runs, anims, timers, eventVars>>

\* The setTimeout callback of the close branch.
TimerFocus ==
    /\ timers # <<>>
    /\ Focus(Head(timers))
    /\ timers' = Tail(timers)
    /\ UNCHANGED <<configVars, lifeVars, lockVars, open, nextId, display,
                   originalTrigger, activeModals, runs, anims, raf, eventVars>>

\* The user moves the focus (click or Tab).
UserFocus(e) ==
    /\ e # activeElement
    /\ Focusable(e)
    /\ activeElement' = e
    /\ UNCHANGED <<configVars, lifeVars, lockVars, open, nextId, display,
                   originalTrigger, activeModals, runs, anims, raf, timers, eventVars>>

\* The keydown listener of connectedCallback handles the event on d.
HandlesEscape(d) == listeners[d] > 0 /\ open[d] /\ closeOnEsc[d]

\* The dialogs on the path of a keydown on the focused element whose
\* listener handles the event, each with its place on the path.
EscapeTakers ==
    {i \in 1..Len(PathDialogs(activeElement)) :
        HandlesEscape(PathDialogs(activeElement)[i])}

\* An Escape keydown on the focused element bubbles through the dialogs on
\* its path until a listener handles it and stops the propagation: the
\* dialog that handles it, 0 when none does.
EscapeHandler ==
    IF EscapeTakers = {} THEN 0
    ELSE PathDialogs(activeElement)[
             CHOOSE i \in EscapeTakers : \A j \in EscapeTakers : i <= j]

\* The keydown listener: `event.stopPropagation(); this.open = false`.
KeydownHandled(prevented) ==
    /\ EscapeHandler # 0
    /\ OpenChanged(EscapeHandler, FALSE, prevented)
    /\ UNCHANGED <<configVars, lifeVars, focusVars>>

\* The user presses Escape.
KeydownEscape(prevented) ==
    /\ EscapeHandler # 0
    /\ nextId[EscapeHandler] < MaxRequests
    /\ KeydownHandled(prevented)

\* Mutant of OverlayClick: the click closes the dialog whatever
\* closeOnOverlayClick says.
OverlayClickAlwaysCloses(d, prevented) ==
    /\ hasUpdated[d]
    /\ Rendered(d)
    /\ overlayClicks[d] < MaxOverlayClicks
    /\ overlayClicks' = [overlayClicks EXCEPT ![d] = @ + 1]
    /\ IF open[d]
       THEN /\ nextId[d] < MaxRequests
            /\ OpenChanged(d, FALSE, prevented)
       ELSE UNCHANGED <<open, nextId, runs, display, originalTrigger,
                        activeModals, lockVars, anims, eventVars>>
    /\ UNCHANGED <<nested, closeOnEsc, closeOnOverlayClick, triggerVars,
                   pluginVars, chipVars, lifeVars, focusVars>>

\* onOverlayClick: the user clicks the overlay of the shown dialog d;
\* 'overlay-click' is emitted, then `this.open = false` unless
\* closeOnOverlayClick is off.
OverlayClick(d, prevented) ==
    /\ hasUpdated[d]
    /\ Rendered(d)
    /\ overlayClicks[d] < MaxOverlayClicks
    /\ overlayClicks' = [overlayClicks EXCEPT ![d] = @ + 1]
    /\ IF closeOnOverlayClick[d] /\ open[d]
       THEN /\ nextId[d] < MaxRequests
            /\ OpenChanged(d, FALSE, prevented)
       ELSE UNCHANGED <<open, nextId, runs, display, originalTrigger,
                        activeModals, lockVars, anims, eventVars>>
    /\ UNCHANGED <<nested, closeOnEsc, closeOnOverlayClick, triggerVars,
                   pluginVars, chipVars, lifeVars, focusVars>>

\* connectedCallback: a new modal helper, one more keydown listener.
Connect(d) ==
    /\ ~connected[d]
    /\ listeners[d] < MaxConnects
    /\ (nested /\ d = 2) => connected[1]
    /\ connected' = [connected EXCEPT ![d] = TRUE]
    /\ listeners' = [listeners EXCEPT ![d] = @ + 1]
    /\ UNCHANGED <<configVars, hasUpdated, lockVars, focusVars, open, nextId,
                   display, originalTrigger, activeModals, runs, anims, eventVars>>

\* disconnectedCallback: unlockScreen; the element leaves the document, its
\* animations are cancelled and it loses the focus.
Disconnect(d) ==
    /\ connected[d]
    /\ (nested /\ d = 1) => ~connected[2]
    /\ connected' = [connected EXCEPT ![d] = FALSE]
    /\ unlockScreen(d)
    /\ stopAnimations(d)
    /\ activeElement' = IF InDialog(activeElement, d) THEN Body ELSE activeElement
    /\ UNCHANGED <<configVars, hasUpdated, listeners, open, nextId, display,
                   originalTrigger, activeModals, runs, raf, timers, eventVars>>

\* The first update of a connected element completes.
FirstUpdate(d) ==
    /\ connected[d]
    /\ ~hasUpdated[d]
    /\ hasUpdated' = [hasUpdated EXCEPT ![d] = TRUE]
    /\ UNCHANGED <<configVars, connected, listeners, lockVars, focusVars, open,
                   nextId, display, originalTrigger, activeModals, runs, anims,
                   eventVars>>

----------------------------------------------------------------------------
\* The declarative dialog triggers:
\* $.on(document, 'click', '[data-md-dialog]', handler).

\* The dialog nodes of the document.
Nodes == {"a", "b"}

Undefined == "undefined"

\* The elements that carry a data-md-dialog attribute.
Triggers == 1..5

\* $.parseOptions(_this.getAttribute('data-md-dialog')): triggers 1 and 2
\* name the same dialog, 4 names a dialog that does not exist, 5 names none.
parseOptions(t) ==
    CASE t = 1 -> [target |-> "#a"]
      [] t = 2 -> [target |-> "#a"]
      [] t = 3 -> [target |-> "#b"]
      [] t = 4 -> [target |-> "#gone"]
      [] OTHER -> [target |-> Undefined]

\* $.dom(selector): the nodes the selector matches; none for an unknown or
\* a missing selector.
dom(selector) ==
    CASE selector = "#a" -> <<"a">>
      [] selector = "#b" -> <<"b">>
      [] OTHER -> <<>>

\* s[0]
First(s) == IF s = <<>> THEN Undefined ELSE s[1]

\* $.getData(node, 'mdui.dialog'): the stored controller, 0 for undefined.
getData(node) == IF node \in Nodes THEN data[node] ELSE 0

\* $.setData(node, 'mdui.dialog', inst): nothing is stored without a node.
setData(node, inst) ==
    data' = IF node \in Nodes THEN [data EXCEPT ![node] = inst] ELSE data

\* new mdui.Dialog(dialog, options)
Controller(node) == [target |-> node, opens |-> 0]

\* inst.open() on the i-th controller.
openInst(s, i) == [s EXCEPT ![i].opens = @ + 1]

\* Mutant of ClickHandler: the new controller is not stored.
ClickHandlerNoStore(t) ==
    LET dialog == First(dom(parseOptions(t).target))
        inst == getData(dialog)
    IN  /\ lastThis' = t
        /\ IF inst = 0
           THEN /\ insts' = openInst(Append(insts, Controller(dialog)),
                                     Len(insts) + 1)
                /\ UNCHANGED data
           ELSE /\ insts' = openInst(insts, inst)
                /\ UNCHANGED data

\* The click handler with `this` = t: resolve the target, construct or reuse
\* its controller, open it.
ClickHandler(t) ==
    LET dialog == First(dom(parseOptions(t).target))
        inst == getData(dialog)
    IN  /\ lastThis' = t
        /\ IF inst = 0
           THEN /\ insts' = openInst(Append(insts, Controller(dialog)),
                                     Len(insts) + 1)
                /\ setData(dialog, Len(insts) + 1)
           ELSE /\ insts' = openInst(insts, inst)
                /\ UNCHANGED data

\* Mutant of Matches: only the elements present at registration match.
MatchesAtRegistration(t) == triggers[t] = "static"

\* Dispatch of a click whose target is t: t matches '[data-md-dialog]' when
\* the event passes through it, whenever it entered the document.
Matches(t) == triggers[t] # "absent"

\* $.ready(...): the delegated click handler is registered on the document.
Ready ==
    /\ ~ready
    /\ ready' = TRUE
    /\ UNCHANGED <<dialogVars, pluginVars, chipVars, triggers, clicks, data, insts, lastThis>>

\* A trigger element is inserted into the document.
Insert(t) ==
    /\ triggers[t] = "absent"
    /\ triggers' = [triggers EXCEPT ![t] = IF ready THEN "dynamic" ELSE "static"]
    /\ UNCHANGED <<dialogVars, pluginVars, chipVars, ready, clicks, data, insts, lastThis>>

\* The user clicks trigger element t.
Click(t) ==
    /\ triggers[t] # "absent"
    /\ clicks < MaxClicks
    /\ clicks' = clicks + 1
    /\ IF ready /\ Matches(t)
       THEN ClickHandler(t)
       ELSE UNCHANGED <<data, insts, lastThis>>
    /\ UNCHANGED <<dialogVars, pluginVars, chipVars, ready, triggers>>

----------------------------------------------------------------------------
\* The plugin registry: $.fn.extend.

\* The method names a plugin object may hold and the functions it may give.
Names == {"customFunc", "on"}
Impls == {"f", "g"}
Builtin == "builtin"

\* The plain objects passed to extend.
Objs == UNION {[K -> Impls] : K \in SUBSET Names}

\* The collections extend is called on.
Collections == {"c1", "c2"}

\* eachObject(obj, callback) with the callback `$.fn[prop] = value`.
RECURSIVE eachObject(_, _, _)
eachObject(obj, keys, acc) ==
    IF keys = {} THEN acc
    ELSE LET prop == CHOOSE k \in keys : TRUE
         IN  eachObject(obj, keys \ {prop}, [acc EXCEPT ![prop] = obj[prop]])

\* Mutant of extend: a name that is already registered keeps its function.
extendKeepsFirst(this, obj) ==
    /\ fn' = [n \in Names |->
                 IF n \in DOMAIN obj /\ fn[n] = Undefined THEN obj[n] ELSE fn[n]]
    /\ returned' = this

\* $.fn.extend = function (obj) { eachObject(...); return this; }
extend(this, obj) ==
    /\ fn' = eachObject(obj, DOMAIN obj, fn)
    /\ returned' = this

\* A module calls $(...).extend(obj).
Extend(this, obj) ==
    /\ Len(calls) < MaxExtends
    /\ extend(this, obj)
    /\ calls' = Append(calls, [this |-> this, obj |-> obj])
    /\ UNCHANGED <<dialogVars, triggerVars, chipVars>>

----------------------------------------------------------------------------
\* The chip element: Chip.onClick, Chip.onKeyDown, Chip.onDelete.

\* The properties of the chip the page sets.
ChipProps == {"disabled", "loading", "selectable", "deletable"}

\* event.key of the keydown events.
Keys == {" ", "Delete", "Backspace", "Enter"}

\* `this.selected = !this.selected`
ToggleSelected(c) == [c EXCEPT !.selected = ~@]

\* Mutant of onClick: disabled and loading are not looked at.
onClickIgnoresDisabled ==
    /\ chip' = IF chip.selectable THEN ToggleSelected(chip) ELSE chip
    /\ UNCHANGED deletes

\* onClick: return when disabled or loading; toggle selected when selectable.
onClick ==
    /\ chip' = IF chip.disabled \/ chip.loading THEN chip
               ELSE IF chip.selectable THEN ToggleSelected(chip)
               ELSE chip
    /\ UNCHANGED deletes

\* onKeyDown: return when disabled or loading; Space toggles selected when
\* selectable; Delete and Backspace emit 'delete' when deletable.
onKeyDown(key) ==
    IF chip.disabled \/ chip.loading
    THEN UNCHANGED <<chip, deletes>>
    ELSE /\ chip' = IF chip.selectable /\ key = " "
                    THEN ToggleSelected(chip)
                    ELSE chip
         /\ deletes' = IF chip.deletable /\ key \in {"Delete", "Backspace"}
                       THEN deletes + 1
                       ELSE deletes

\* onDelete: event.stopPropagation(); emit(this, 'delete').
onDelete ==
    /\ deletes' = deletes + 1
    /\ UNCHANGED chip

\* The page sets a property of the chip.
SetChipProp(prop, v) ==
    /\ chip[prop] # v
    /\ chip' = [chip EXCEPT ![prop] = v]
    /\ UNCHANGED <<dialogVars, triggerVars, pluginVars, deletes, chipEvents>>

\* A click on the chip reaches the listener added in firstUpdated.
ChipClick ==
    /\ chipEvents < MaxChipEvents
    /\ chipEvents' = chipEvents + 1
    /\ onClick
    /\ UNCHANGED <<dialogVars, triggerVars, pluginVars>>

\* A keydown on the chip reaches the listener added in firstUpdated.
ChipKeyDown(key) ==
    /\ chipEvents < MaxChipEvents
    /\ chipEvents' = chipEvents + 1
    /\ onKeyDown(key)
    /\ UNCHANGED <<dialogVars, triggerVars, pluginVars>>

\* A click on the delete icon, which is rendered when the chip is deletable;
\* the propagation is stopped, the click does not reach the chip's listener.
ChipDeleteClick ==
    /\ chip.deletable
    /\ chipEvents < MaxChipEvents
    /\ chipEvents' = chipEvents + 1
    /\ onDelete
    /\ UNCHANGED <<dialogVars, triggerVars, pluginVars>>

----------------------------------------------------------------------------
\* The state of the page after construction: no dialog connected yet.
Fresh ==
    /\ open = [d \in Dialogs |-> FALSE]
    /\ display = [d \in Dialogs |-> ""]
    /\ originalTrigger = [d \in Dialogs |-> NoTrigger]
    /\ activeModals = <<>>
    /\ lockOwners = {}
    /\ lockCount = 0
    /\ runs = [d \in Dialogs |-> {}]
    /\ nextId = [d \in Dialogs |-> 0]
    /\ anims = [d \in Dialogs |-> {}]
    /\ raf = <<>>
    /\ timers = <<>>
    /\ activeElement = Body
    /\ lastEvent = [d \in Dialogs |-> NoEvent]
    /\ cancelled = [d \in Dialogs |-> {}]
    /\ overlayClicks = [d \in Dialogs |-> 0]

\* The chip as constructed, after its first update.
ChipFresh ==
    /\ chip = [disabled |-> FALSE, loading |-> FALSE, selectable |-> FALSE,
               deletable |-> FALSE, selected |-> FALSE]
    /\ deletes = 0
    /\ chipEvents = 0

\* The script has not run yet: no trigger in the document, an empty data
\* store, the collection prototype with its built-in methods only.
PageFresh ==
    /\ ready = FALSE
    /\ triggers = [t \in Triggers |-> "absent"]
    /\ clicks = 0
    /\ data = [n \in Nodes |-> 0]
    /\ insts = <<>>
    /\ lastThis = 0
    /\ fn = [n \in Names |-> IF n = "on" THEN Builtin ELSE Undefined]
    /\ calls = <<>>
    /\ returned = Undefined

\* Spec: the whole life of one dialog (dialog 1; dialog 2 never enters the
\* document), with every interleaving of its invocations of onOpenChange.
Solo == {1}

Init ==
    /\ nested = FALSE
    /\ closeOnEsc \in {f \in [Dialogs -> BOOLEAN] : ~f[2]}
    /\ connected = [d \in Dialogs |-> FALSE]
    /\ hasUpdated = [d \in Dialogs |-> FALSE]
    /\ listeners = [d \in Dialogs |-> 0]
    /\ closeOnOverlayClick = [d \in Dialogs |-> FALSE]
    /\ Fresh
    /\ PageFresh
    /\ ChipFresh

Next ==
    \/ \E d \in Solo, v \in BOOLEAN, p \in BOOLEAN : SetOpen(d, v, p)
    \/ \E d \in Solo, p \in BOOLEAN : RunStart(d, p)
    \/ \E d \in Solo : \E r \in runs[d] : OpenAfterStop(d, r)
    \/ \E d \in Solo : \E r \in runs[d] : OpenAfterAnim(d, r)
    \/ \E d \in Solo : \E r \in runs[d] : CloseAfterStop(d, r)
    \/ \E d \in Solo : \E r \in runs[d] : CloseAfterAnim(d, r)
    \/ RafFocus
    \/ TimerFocus
    \/ \E e \in Elems : UserFocus(e)
    \/ \E p \in BOOLEAN : KeydownEscape(p)
    \/ \E d \in Solo : Connect(d)
    \/ \E d \in Solo : Disconnect(d)
    \/ \E d \in Solo : FirstUpdate(d)

Spec == Init /\ [][Next]_vars

\* The event loop resumes the invocation `id` of onOpenChange of d at the
\* await it is suspended at.
Resume(d, id) ==
    \E r \in runs[d] :
        /\ r.id = id
        /\ \/ OpenAfterStop(d, r)
           \/ OpenAfterAnim(d, r)
           \/ CloseAfterStop(d, r)
           \/ CloseAfterAnim(d, r)

\* SpecLive: Spec with a fair event loop: an awaited promise that is
\* resolved is eventually followed by the continuation of its invocation.
SpecLive ==
    Spec /\ \A d \in Solo : \A id \in 1..MaxRequests : WF_vars(Resume(d, id))

\* SpecStack: both dialogs, connected and updated, side by side or nested;
\* the open property of a dialog changes only when its previous transition
\* has finished, a nested dialog is opened only while the dialog around it
\* is shown, and Escape is pressed only when no transition is in flight.
InitStack ==
    /\ nested \in BOOLEAN
    /\ closeOnEsc \in [Dialogs -> BOOLEAN]
    /\ connected = [d \in Dialogs |-> TRUE]
    /\ hasUpdated = [d \in Dialogs |-> TRUE]
    /\ listeners = [d \in Dialogs |-> 1]
    /\ closeOnOverlayClick = [d \in Dialogs |-> FALSE]
    /\ Fresh
    /\ PageFresh
    /\ ChipFresh

Idle(d) == runs[d] = {}

StackSetOpen(d, v, prevented) ==
    /\ Idle(d)
    /\ nextId[d] < MaxStackRequests
    /\ (nested /\ d = 2 /\ v) => Rendered(1)
    /\ SetOpen(d, v, prevented)

StackEscape(prevented) ==
    /\ \A d \in Dialogs : Idle(d)
    /\ EscapeHandler # 0
    /\ nextId[EscapeHandler] < MaxStackRequests
    /\ KeydownHandled(prevented)

NextStack ==
    \/ \E d \in Dialogs, v \in BOOLEAN, p \in BOOLEAN : StackSetOpen(d, v, p)
    \/ \E d \in Dialogs : \E r \in runs[d] : OpenAfterStop(d, r)
    \/ \E d \in Dialogs : \E r \in runs[d] : OpenAfterAnim(d, r)
    \/ \E d \in Dialogs : \E r \in runs[d] : CloseAfterStop(d, r)
    \/ \E d \in Dialogs : \E r \in runs[d] : CloseAfterAnim(d, r)
    \/ RafFocus
    \/ TimerFocus
    \/ \E e \in Elems : UserFocus(e)
    \/ \E p \in BOOLEAN : StackEscape(p)

SpecStack == InitStack /\ [][NextStack]_vars

\* SpecOverlay: one dialog, connected and updated, with its overlay: the
\* open property changes by assignment or by a click on the overlay.
InitOverlay ==
    /\ nested = FALSE
    /\ closeOnEsc = [d \in Dialogs |-> FALSE]
    /\ closeOnOverlayClick \in {f \in [Dialogs -> BOOLEAN] : ~f[2]}
    /\ connected = [d \in Dialogs |-> d \in Solo]
    /\ hasUpdated = [d \in Dialogs |-> d \in Solo]
    /\ listeners = [d \in Dialogs |-> IF d \in Solo THEN 1 ELSE 0]
    /\ Fresh
    /\ PageFresh
    /\ ChipFresh

NextOverlay ==
    \/ \E d \in Solo, v \in BOOLEAN, p \in BOOLEAN : SetOpen(d, v, p)
    \/ \E d \in Solo : \E r \in runs[d] : OpenAfterStop(d, r)
    \/ \E d \in Solo : \E r \in runs[d] : OpenAfterAnim(d, r)
    \/ \E d \in Solo : \E r \in runs[d] : CloseAfterStop(d, r)
    \/ \E d \in Solo : \E r \in runs[d] : CloseAfterAnim(d, r)
    \/ RafFocus
    \/ TimerFocus
    \/ \E d \in Solo, p \in BOOLEAN : OverlayClick(d, p)

SpecOverlay == InitOverlay /\ [][NextOverlay]_vars

\* SpecPage: the declarative triggers of a page; SpecPlugin: the plugin
\* registry. No dialog element is in the document.
InitPage ==
    /\ nested = FALSE
    /\ closeOnEsc = [d \in Dialogs |-> FALSE]
    /\ connected = [d \in Dialogs |-> FALSE]
    /\ hasUpdated = [d \in Dialogs |-> FALSE]
    /\ listeners = [d \in Dialogs |-> 0]
    /\ closeOnOverlayClick = [d \in Dialogs |-> FALSE]
    /\ Fresh
    /\ PageFresh
    /\ ChipFresh

NextPage ==
    \/ Ready
    \/ \E t \in Triggers : Insert(t)
    \/ \E t \in Triggers : Click(t)

SpecPage == InitPage /\ [][NextPage]_vars

\* SpecChip: one chip element, its properties set by the page, with the
\* user's clicks and keydowns.
NextChip ==
    \/ \E prop \in ChipProps, v \in BOOLEAN : SetChipProp(prop, v)
    \/ ChipClick
    \/ \E key \in Keys : ChipKeyDown(key)
    \/ ChipDeleteClick

SpecChip == InitPage /\ [][NextChip]_vars

NextPlugin == \E c \in Collections, obj \in Objs : Extend(c, obj)

SpecPlugin == InitPage /\ [][NextPlugin]_vars

----------------------------------------------------------------------------
\* Properties.

InStack(d) == \E i \in 1..Len(activeModals) : activeModals[i] = d

\* The dialog is hidden, its modal helper deactivated, its lock unit given
\* back and nothing is animated on its elements.
Inactive(d) ==
    /\ display[d] = "none"
    /\ ~InStack(d)
    /\ d \notin lockOwners
    /\ anims[d] = {}

\* The dialog was opened and then closed, and the close has completed.
Closed(d) == Idle(d) /\ ~open[d] /\ lastEvent[d].ev = "closed"

NeverOpened(d) == nextId[d] = 0

\* C1: once every dialog that was opened has been closed, each open and each
\* close having been allowed to complete, the scroll-lock counter is exactly 0.
C1_LockReleasedAfterAllClosed ==
    (\A d \in Dialogs : Closed(d) \/ NeverOpened(d))
        => lockCount = 0 /\ lockOwners = {}

\* Both dialogs were open at the same time, dialog 2 opened from inside
\* dialog 1, and both have been closed.
C1_Witness ==
    /\ \A d \in Dialogs : Closed(d)
    /\ originalTrigger[2] = Panel(1)
    /\ lockCount = 0

\* The step emits `ev` on d and a listener prevents its default.
Cancels(d, ev) ==
    /\ lastEvent'[d] # lastEvent[d] \/ cancelled'[d] # cancelled[d]
    /\ lastEvent'[d].ev = ev
    /\ lastEvent'[d].prevented

\* C2: a step in which the 'open' event of a dialog is default-prevented
\* changes neither the scroll lock, the modal stack, the display, the focus
\* (now or by a requested callback) nor the animations, and it leaves no
\* invocation in flight for that request; 'opened' is never emitted for a
\* request whose 'open' event was prevented.
C2_CancelledOpenHasNoEffect ==
    [][\A d \in Dialogs :
          /\ Cancels(d, "open") =>
                /\ UNCHANGED <<lockVars, activeModals, display, originalTrigger,
                               focusVars, anims>>
                /\ \A r \in runs'[d] : r.id # lastEvent'[d].id
          /\ \A r \in runs'[d] : r.kind = "open" => r.id \notin cancelled'[d]
          /\ lastEvent'[d].ev = "opened" => lastEvent'[d].id \notin cancelled'[d]
      ]_vars

\* The first request to open dialog 1 was cancelled: the dialog is still as
\* it was constructed.
C2_Witness ==
    /\ lastEvent[1] = Event("open", 1, TRUE)
    /\ open[1]
    /\ display[1] = ""
    /\ lockCount = 0
    /\ activeModals = <<>>

\* C3: when the last change of the open property of a dialog was a change
\* to false whose 'close' event was not prevented (so also when it came while
\* the open transition was still in flight), then once no invocation of the
\* dialog is in flight any more the dialog is inactive: hidden, deactivated,
\* unlocked, with no animation running on its elements.
C3_OpenThenCloseEndsInactive ==
    \A d \in Dialogs :
        (/\ nextId[d] > 0
         /\ ~open[d]
         /\ nextId[d] \notin cancelled[d]
         /\ Idle(d))
            => Inactive(d)

\* Dialog 1 was opened and closed before the open transition had finished:
\* the open transition finished after the close transition.
C3_Witness ==
    /\ nextId[1] = 2
    /\ ~open[1]
    /\ Idle(1)
    /\ lastEvent[1] = Event("opened", 1, FALSE)
    /\ Inactive(1)

\* C4: an open animation and a close animation never run at the same time
\* on the elements of one dialog.
C4_NoConflictingAnimations ==
    \A d \in Dialogs :
        ~(\E a \in anims[d], b \in anims[d] : a.kind = "open" /\ b.kind = "close")

\* The invocations of onOpenChange of d that have entered run().
InFlight(d) == {r \in runs[d] : r.pc # "wait"}

\* C5: at most one transition of a dialog is in flight at any time.
C5_OneTransitionInFlight ==
    \A d \in Dialogs : Cardinality(InFlight(d)) <= 1

\* No focus callback is pending.
FocusSettled == raf = <<>> /\ timers = <<>>

\* The dialog is in the active state: shown, its overlay context on the
\* stack, its lock unit held, no transition of it in flight.
Active(d) == Rendered(d) /\ InStack(d) /\ d \in lockOwners /\ Idle(d)

\* Two dialogs are stacked: both active, one above the other.
Stacked2 ==
    /\ Len(activeModals) = 2
    /\ activeModals[1] # activeModals[2]
    /\ \A d \in Dialogs : Active(d)
    /\ FocusSettled

Lower == activeModals[1]

\* C6: with two dialogs stacked and close-on-escape enabled on both, an
\* Escape keydown sets open to false on the topmost dialog and leaves the
\* open property and the overlay context of the lower dialog as they are.
C6_EscapeClosesTopmostOnly ==
    [][(/\ Stacked2
        /\ \A d \in Dialogs : closeOnEsc[d]
        /\ \E p \in BOOLEAN : StackEscape(p))
          => /\ ~open'[Top]
             /\ open'[Lower] = open[Lower]
             /\ \E i \in 1..Len(activeModals') : activeModals'[i] = Lower
      ]_vars

\* Every dialog on the stack is active.
StackOfActive ==
    /\ activeModals # <<>>
    /\ \A d \in Dialogs : InStack(d) => Active(d)
    /\ \A d \in Dialogs : Idle(d)
    /\ FocusSettled

\* C7: whatever the close-on-escape flags of the active dialogs on the stack,
\* an Escape keydown does not change the open property of a dialog that is
\* not the topmost one.
C7_EscapeNeverClosesLowerDialog ==
    [][(StackOfActive /\ \E p \in BOOLEAN : StackEscape(p))
          => \A d \in Dialogs : d # Top => open'[d] = open[d]
      ]_vars

\* The 'close' event of the last request of d was prevented and nothing
\* has happened to d since; the dialog is on the stack.
CloseWasCancelled(d) ==
    /\ lastEvent[d] = Event("close", nextId[d], TRUE)
    /\ Idle(d)
    /\ InStack(d)

\* C8: a step in which the 'close' event of an active dialog is
\* default-prevented leaves the dialog active (shown, activated, locked, no
\* invocation in flight, so no 'closed'), and the dialog behaves as active
\* afterwards: its keydown listener still handles Escape when close-on-escape
\* is enabled, and a later change of open to true neither activates the modal
\* helper nor locks the screen a second time.
C8_CancelledCloseKeepsActive ==
    [][\A d \in Dialogs :
          /\ (Active(d) /\ open[d] /\ Cancels(d, "close")) =>
                /\ UNCHANGED <<display, activeModals, lockVars>>
                /\ runs'[d] = {}
                /\ (closeOnEsc[d] /\ listeners[d] > 0) => HandlesEscape(d)'
          /\ (CloseWasCancelled(d) /\ ~open[d] /\ open'[d]) =>
                UNCHANGED <<activeModals, lockVars>>
      ]_vars

\* The part of C8 about the step itself: the cancelled close changes neither
\* the display, the modal stack nor the scroll lock and leaves no invocation
\* in flight.
C8_CancelledCloseStep ==
    [][\A d \in Dialogs :
          (Active(d) /\ open[d] /\ Cancels(d, "close")) =>
                /\ UNCHANGED <<display, activeModals, lockVars>>
                /\ runs'[d] = {}
      ]_vars

LockCalled(d) ==
    \E r \in runs'[d] \ runs[d] : r.kind = "open" /\ r.pc = "stop"

\* The step calls unlockScreen(d): the end of the close branch, or
\* disconnectedCallback.
UnlockCalled(d) ==
    \/ Disconnect(d)
    \/ \E r \in runs[d] : CloseAfterAnim(d, r)

\* C10: the calls of lockScreen and unlockScreen of one dialog are paired:
\* unlockScreen is called only by a dialog whose last lockScreen is not yet
\* matched, and lockScreen only by a dialog that has no unmatched lockScreen.
C10_LockCallsPaired ==
    [][\A d \in Dialogs :
          /\ UnlockCalled(d) => d \in lockOwners
          /\ LockCalled(d) => d \notin lockOwners
      ]_vars

\* C11: in every state the number of scroll-lock units held equals the
\* number of dialogs whose overlay context is activated (is on the stack of
\* activated modal helpers).
C11_LockUnitsMatchActivatedContexts ==
    /\ lockCount = Cardinality({d \in Dialogs : InStack(d)})
    /\ \A d \in Dialogs : d \in lockOwners <=> InStack(d)

\* The node trigger t names, Undefined when its selector is missing or
\* matches nothing.
TargetOf(t) == First(dom(parseOptions(t).target))

\* The click handler runs for a click on t.
Activates(t) == ready /\ Click(t)

ControllersOf(s, n) == {i \in 1..Len(s) : s[i].target = n}

\* C12: an activation of a trigger whose target is a dialog node constructs
\* a controller only when the data store holds none for the node, and then
\* stores it under the node; otherwise it reuses the stored one and the
\* entry of the node stays as it is; every activation invokes open on that
\* controller; at most one controller exists per node and no two nodes
\* share one.
C12_OneControllerPerTarget ==
    [][\A t \in Triggers :
          (Activates(t) /\ TargetOf(t) \in Nodes) =>
              LET n == TargetOf(t)
              IN  /\ data[n] = 0 =>
                        /\ Len(insts') = Len(insts) + 1
                        /\ data'[n] = Len(insts')
                        /\ insts'[data'[n]].opens = 1
                  /\ data[n] # 0 =>
                        /\ Len(insts') = Len(insts)
                        /\ data'[n] = data[n]
                        /\ insts'[data'[n]].opens = insts[data[n]].opens + 1
                  /\ insts'[data'[n]].target = n
                  /\ \A m \in Nodes :
                        /\ Cardinality(ControllersOf(insts', m)) <= 1
                        /\ m # n => data'[m] = data[m] /\ data'[m] # data'[n]
      ]_vars

\* Triggers 1 and 2, which name the same dialog, were both clicked, three
\* clicks in all: one controller, opened three times.
C12_Witness ==
    /\ insts = <<[target |-> "a", opens |-> 3]>>
    /\ data["a"] = 1
    /\ lastThis = 2
    /\ triggers[1] # "absent"
    /\ clicks = 3

\* C13: an activation of a trigger whose target selector is missing or
\* matches no element constructs no controller, writes nothing to the data
\* store and invokes no open operation.
C13_UnresolvedTargetIsNoOp ==
    [][\A t \in Triggers :
          (Activates(t) /\ TargetOf(t) = Undefined) => UNCHANGED <<data, insts>>
      ]_vars

\* The calls of extend whose object holds the name n.
Writers(n) == {i \in 1..Len(calls) : n \in DOMAIN calls[i].obj}

\* The function the most recent call holding n gave for it; what $.fn held
\* at the start when no call held n.
LastWritten(n) ==
    IF Writers(n) = {}
    THEN IF n = "on" THEN Builtin ELSE Undefined
    ELSE calls[CHOOSE i \in Writers(n) : \A j \in Writers(n) : j <= i].obj[n]

\* C14: after any sequence of extend calls every name maps to the function
\* of the most recent call that held it, a name no call held keeps what it
\* had, registering an object a second time changes nothing, and extend
\* returns the collection it was called on.
C14_ExtendLastWriterWins ==
    /\ \A n \in Names : fn[n] = LastWritten(n)
    /\ \A obj \in Objs :
          eachObject(obj, DOMAIN obj, eachObject(obj, DOMAIN obj, fn))
              = eachObject(obj, DOMAIN obj, fn)
    /\ calls # <<>> => returned = calls[Len(calls)].this

\* Two calls on different collections: the first registers both names, the
\* second registers customFunc again with another function.
C14_Witness ==
    /\ Len(calls) = 2
    /\ DOMAIN calls[1].obj = Names
    /\ calls[1].obj["customFunc"] = "f"
    /\ calls[1].obj["on"] = "g"
    /\ DOMAIN calls[2].obj = {"customFunc"}
    /\ calls[2].obj["customFunc"] = "g"
    /\ calls[1].this # calls[2].this
    /\ fn["customFunc"] = "g"
    /\ fn["on"] = "g"

\* r is a transition of d that nothing interrupts: the only invocation in
\* flight, started by the last change of open, on a connected dialog.
Uninterrupted(d, r) ==
    /\ runs[d] = {r}
    /\ nextId[d] = r.id
    /\ connected[d]

\* The focus callback of the open branch of d is still pending.
FocusPending(d) == \E i \in 1..Len(raf) : raf[i] = d

\* C15: in an uninterrupted open transition the focus is not moved into the
\* dialog while the open animation has not completed, and it has been moved
\* when 'opened' is emitted.
C15_OpenStepOrder ==
    [][\A d \in Dialogs : \A r \in runs[d] :
          (r.kind = "open" /\ Uninterrupted(d, r)) =>
              /\ ~(r.pc = "anim" /\ raf # <<>> /\ Head(raf) = d /\ RafFocus)
              /\ OpenAfterAnim(d, r) => ~FocusPending(d)
      ]_vars

\* The focus callback of the close branch has run: no timer is pending.
FocusRestored == timers = <<>>

\* C16: in an uninterrupted close transition of a dialog that had opened,
\* the overlay context of the dialog stays activated until the close
\* animation has finished, and the focus has been restored when 'closed' is
\* emitted.
C16_CloseStepOrder ==
    /\ \A d \in Dialogs : \A r \in runs[d] :
          (/\ r.kind = "close"
           /\ Uninterrupted(d, r)
           /\ lastEvent[d] = Event("close", r.id, FALSE)
           /\ d \in lockOwners)
              => InStack(d)
    /\ \A d \in Dialogs :
          (/\ lastEvent[d].ev = "closed"
           /\ Idle(d)
           /\ nextId[d] = lastEvent[d].id
           /\ originalTrigger[d] # NoTrigger)
              => FocusRestored

\* C17: the element a completing close transition restores the focus to is
\* the element that held the focus while the dialog was still inactive; so
\* it is never an element of the dialog itself, which can hold the focus
\* only once the dialog is shown.
C17_FocusRestoredToPriorElement ==
    [][\A d \in Dialogs : \A r \in runs[d] :
          CloseAfterAnim(d, r) => ~InDialog(originalTrigger[d], d)
      ]_vars

\* The invocation `id` of d is in a transition: it has emitted its 'open' or
\* 'close' event, the event was not prevented, and it has not returned.
InTransition(d, id) == \E r \in runs[d] : r.id = id /\ r.pc # "wait"

\* The invocation `id` of d has come to its end and emitted 'opened' or
\* 'closed'.
TransitionFinished(d, id) ==
    /\ lastEvent[d].id = id
    /\ lastEvent[d].ev \in {"opened", "closed"}

\* C18: every transition whose 'open' or 'close' event was not prevented
\* eventually comes to its end and emits 'opened' or 'closed', whatever
\* cancels its animations in between.
C18_TransitionsTerminate ==
    \A d \in Dialogs : \A id \in 1..MaxRequests :
        InTransition(d, id) ~> TransitionFinished(d, id)

\* The open animation of invocation 1 was cancelled by the stopAnimations of
\* the close transition that followed, and invocation 1 has emitted 'opened'
\* all the same.
C18_Witness ==
    /\ TransitionFinished(1, 1)
    /\ lastEvent[1].ev = "opened"
    /\ \E r \in runs[1] : r.id = 2 /\ r.kind = "close" /\ r.pc = "anim"
    /\ \E a \in anims[1] : a.id = 2

\* C19: the keydown registrations made by connectedCallback do not
\* accumulate on a dialog element, and a disconnected dialog has none.
C19_KeydownListenersDoNotAccumulate ==
    \A d \in Dialogs :
        /\ listeners[d] <= 1
        /\ ~connected[d] => listeners[d] = 0

\* The step invokes open on some controller once.
OpensOne ==
    \E i \in 1..Len(insts') :
        /\ insts'[i].opens = (IF i <= Len(insts) THEN insts[i].opens ELSE 0) + 1
        /\ \A j \in 1..Len(insts) : j # i => insts'[j] = insts[j]

\* C20: once the delegated click handler is registered, a click on a
\* trigger element that entered the document after the registration
\* invokes the handler with that element as `this`; when its target is a
\* dialog node, the controller of that node is opened.
C20_DelegationMatchesAtDispatch ==
    [][\A t \in Triggers :
          (ready /\ triggers[t] = "dynamic" /\ Click(t)) =>
              /\ lastThis' = t
              /\ OpensOne
              /\ TargetOf(t) \in Nodes =>
                    /\ data'[TargetOf(t)] # 0
                    /\ insts'[data'[TargetOf(t)]].opens > 0
      ]_vars

\* Trigger 3 was inserted after the registration and clicked: the
\* controller of its target was constructed and opened.
C20_Witness ==
    /\ ready
    /\ triggers[3] = "dynamic"
    /\ lastThis = 3
    /\ data["b"] # 0
    /\ insts[data["b"]] = [target |-> "b", opens |-> 1]

\* C21: a click on the overlay of a dialog emits 'overlay-click'; with
\* closeOnOverlayClick on it sets open to false, with closeOnOverlayClick off
\* it leaves open, the modal stack and the scroll lock as they are.
C21_OverlayClickClosesIffEnabled ==
    [][\A d \in Dialogs :
          (\E p \in BOOLEAN : OverlayClick(d, p)) =>
              /\ overlayClicks'[d] = overlayClicks[d] + 1
              /\ closeOnOverlayClick[d] => ~open'[d]
              /\ ~closeOnOverlayClick[d] =>
                    UNCHANGED <<open, activeModals, lockVars, runs>>
      ]_vars

\* The overlay of an open dialog with closeOnOverlayClick off was clicked:
\* the dialog is still open and active.
C21_Witness ==
    /\ overlayClicks[1] > 0
    /\ ~closeOnOverlayClick[1]
    /\ open[1]
    /\ Active(1)
    /\ lastEvent[1].ev = "opened"

\* All transitions of d have settled: no invocation of onOpenChange is in
\* flight on the connected, updated dialog, and none of its events was
\* prevented.
Settled(d) ==
    /\ connected[d]
    /\ hasUpdated[d]
    /\ Idle(d)
    /\ nextId[d] > 0
    /\ cancelled[d] = {}

\* C22: whenever all transitions of a dialog have settled, the dialog is
\* shown, activated and holds its scroll-lock unit if open is true, and is
\* none of the three if open is false.
C22_SettledStateAgreesWithOpen ==
    \A d \in Dialogs :
        Settled(d) =>
            /\ open[d] => display[d] = "flex" /\ InStack(d) /\ d \in lockOwners
            /\ ~open[d] => display[d] # "flex" /\ ~InStack(d) /\ d \notin lockOwners

\* C23: 'opened' is emitted on a dialog only while open is true and no
\* request has followed the one that is completing, 'closed' only while open
\* is false and no request has followed the one that is completing.
C23_NotificationsWellOrdered ==
    [][\A d \in Dialogs : \A r \in runs[d] :
          /\ OpenAfterAnim(d, r) => open[d] /\ nextId[d] = r.id
          /\ CloseAfterAnim(d, r) => ~open[d] /\ nextId[d] = r.id
      ]_vars

\* C24: when an invocation of onOpenChange made before the first update
\* enters run() with open = false, it performs no close transition: no
\* event is emitted, the modal helper is not deactivated and no close
\* branch is started that would call unlockScreen.
C24_NoCloseAfterFirstUpdate ==
    [][\A d \in Dialogs :
          (~open[d] /\ \E p \in BOOLEAN : RunStart(d, p)) =>
              /\ UNCHANGED <<lastEvent, activeModals, lockVars>>
              /\ \A r \in runs'[d] : r.kind = "close" => r \in runs[d]
      ]_vars

\* The chip handles user input: it is neither disabled nor loading.
ChipEnabled == ~chip.disabled /\ ~chip.loading

\* C25: a click or a Space keydown toggles selected when the chip is
\* selectable and neither disabled nor loading, and every other click or
\* keydown leaves selected as it is; a Delete or Backspace keydown emits
\* 'delete' exactly when the chip is deletable and neither disabled nor
\* loading, and does not change selected.
C25_ChipSelectionAndDelete ==
    [][/\ ChipClick =>
             chip'.selected = (IF ChipEnabled /\ chip.selectable
                               THEN ~chip.selected ELSE chip.selected)
       /\ \A key \in Keys : ChipKeyDown(key) =>
             /\ chip'.selected =
                   (IF ChipEnabled /\ chip.selectable /\ key = " "
                    THEN ~chip.selected ELSE chip.selected)
             /\ deletes' =
                   (IF ChipEnabled /\ chip.deletable
                       /\ key \in {"Delete", "Backspace"}
                    THEN deletes + 1 ELSE deletes)
      ]_vars

\* A selectable chip was selected while enabled and is now disabled and
\* deletable; of the three events one toggled it and none emitted 'delete'.
C25_Witness ==
    /\ chipEvents = 3
    /\ chip.selected
    /\ chip.selectable
    /\ chip.disabled
    /\ chip.deletable
    /\ deletes = 0

====
